---------------------------- MODULE Spec2Model ----------------------------
(***************************************************************************)
(* State-machine model of VisibilityBase                                   *)
(* (src/python/across_api/base/visibility.py): one query instance, its     *)
(* ephemeris and SAA providers, the lazily cached per-constraint arrays,   *)
(* get(), constraint(index) and insaa(t).                                  *)
(*                                                                         *)
(* Abstractions.                                                           *)
(*  - Times are seconds since the first ephemeris sample.                  *)
(*  - The angular-separation tests are not recomputed: the ephemeris       *)
(*    carries, per grid sample, the outcome of each test against the       *)
(*    target (ephem.earth[g] = "the target is inside the Earth constraint  *)
(*    at sample g", and so on).  What the model keeps of the computation   *)
(*    is which slice of the grid it reads, the shape of its result under   *)
(*    numpy broadcasting, and where it raises.                             *)
(*  - Python arrays are sequences; Python index i is element i + 1.        *)
(*  - The providers (EphemBase, SAABase), round_time, validate_get and     *)
(*    make_windows are defined outside visibility.py; they are modelled    *)
(*    from their description: ephindex takes the sample covering a time,   *)
(*    round_time the nearest minute, make_windows the maximal runs of      *)
(*    false, and the SAA provider keeps one boolean numpy array, of which  *)
(*    a slice is a view.                                                   *)
(*  - fresh, ncomp, ret and nops observe the run; the program has no such  *)
(*    fields.                                                              *)
(***************************************************************************)
EXTENDS Integers, Sequences, FiniteSets, TLC

\* ------------------------------------------------------------------ bounds
\* Number of samples of the ephemeris grid.
GridLen == 3
\* Number of calls made on the query instance in one behaviour.
MaxOps == 3

\* ------------------------------------------------------- program constants
\* get(): round_time(self.begin, 60)
RoundTo == 60
\* Spacing of the ephemeris grid in seconds (one sample a minute).
StepSize == RoundTo
\* Resolution of the wall-clock times a caller supplies.
Tick == RoundTo \div 3

VARIABLES
    ephem,          \* ephemeris provider: per-sample test outcomes, capabilities
    saa_poly,       \* SAA provider: polygon containment per grid sample
    saa_insaacons,  \* SAA provider: its memoised array (self.saa.insaacons)
    cons,           \* the enable flags saa_cons, earth_cons, ...
    begin,          \* self.begin
    end,            \* self.end
    cache,          \* _inearthcons, _insuncons, ..., _skycoord, _saa_windows
    inconstraint,   \* self.inconstraint
    entries,        \* self.entries
    warnings,       \* self.status.warnings
    ncomp,          \* how many times each cached value has been computed
    ret,            \* the last call and what it returned
    fresh,          \* get() has completed and begin, end, flags are as it left them
    nops            \* calls made so far

vars == <<ephem, saa_poly, saa_insaacons, cons, begin, end, cache,
          inconstraint, entries, warnings, ncomp, ret, fresh, nops>>

\* ----------------------------------------------------------------- helpers
Min(a, b) == IF a < b THEN a ELSE b

BoolSeqs(n) == [1..n -> BOOLEAN]
Zeros(n) == [i \in 1..n |-> FALSE]

\* Python seq[a:b] for 0 <= a, 0 <= b.
PySlice(seq, a, b) ==
    LET hi == Min(b, Len(seq))
    IN  IF a >= hi THEN <<>> ELSE SubSeq(seq, a + 1, hi)

\* ------------------------------------------------------ ephemeris provider
\* ephem.timestamp: one sample every StepSize seconds.
ephem_timestamp == [g \in 1..GridLen |-> (g - 1) * StepSize]
LastTime == (GridLen - 1) * StepSize

\* ephem.ephindex(t): index of the grid sample covering t.
ephindex(t) == t \div StepSize

\* round_time(dt, 60): nearest whole minute.
round_time(t) == ((t + RoundTo \div 2) \div RoundTo) * RoundTo

\* ---------------------------------------------------------- active slice
ephstart == ephindex(begin)
ephstop == ephindex(end) + 1
timestamp == PySlice(ephem_timestamp, ephstart, ephstop)
\* The slice for a begin that is not yet stored (get() rounds it first).
timestampAt(b) == PySlice(ephem_timestamp, ephindex(b), ephstop)

\* insaacons: the provider's array sliced to the active range (a view of it).
insaaconsOf(arr, b) == PySlice(arr, ephindex(b), ephstop)
insaacons == insaaconsOf(saa_insaacons, begin)

\* ------------------------------------------------------------- the caches
NoArr == [set |-> FALSE, val |-> <<>>]
NoSky == [set |-> FALSE, n |-> 0]
NoWin == [set |-> FALSE, val |-> <<>>]
CacheNames == {"earth", "sun", "moon", "ram", "pole"}
Optional == {"ram", "pole"}
EmptyCache ==
    [earth |-> NoArr, sun |-> NoArr, moon |-> NoArr, ram |-> NoArr,
     pole |-> NoArr, sky |-> NoSky, saawin |-> NoWin]
ZeroComp == [earth |-> 0, sun |-> 0, moon |-> 0, ram |-> 0, pole |-> 0, sky |-> 0]

\* numpy broadcasting of two one-dimensional shapes; n = -1 stands for a scalar.
Scalar == 0 - 1
Broadcastable(m, n) == n = Scalar \/ m = n \/ m = 1 \/ n = 1
BroadcastLen(m, n) == IF n = Scalar \/ m = n \/ n = 1 THEN m ELSE n

\* hasattr(self, "_in<c>cons")
CachedNever(o, c) == FALSE
Cached(o, c) == o.cache[c].set

\* hasattr(self, "_skycoord")
SkyCached(o) == o.cache.sky.set

\* self.skycoord with self.begin = b: one frame per sample of the active slice
\* when the ephemeris is apparent, a single fixed direction otherwise.
skycoord(o, b) ==
    IF SkyCached(o) THEN o
    ELSE [o EXCEPT !.cache.sky =
                       [set |-> TRUE,
                        n |-> IF ephem.apparent THEN Len(timestampAt(b)) ELSE Scalar],
                   !.ncomp.sky = Min(@ + 1, 2)]

\* Ram and Pole exist only when the ephemeris has velocity / pole vectors.
Available(c) == c \notin Optional \/ ephem.velocity

\* The properties inearthcons, insuncons, inmooncons, inramcons, inpolecons,
\* read with self.begin = b.  kind is "array", "none" (the property returned
\* None) or "raised" (separation or the comparison raised on a shape mismatch).
InCons(o, c, b) ==
    IF ~Available(c) THEN [o |-> o, kind |-> "none", val |-> <<>>]
    ELSE IF Cached(o, c) THEN [o |-> o, kind |-> "array", val |-> o.cache[c].val]
    ELSE LET o1 == skycoord(o, b)
             m == Len(timestampAt(b))
             n == o1.cache.sky.n
         IN  IF ~Broadcastable(m, n)
             THEN [o |-> o1, kind |-> "raised", val |-> <<>>]
             ELSE LET v == [i \in 1..BroadcastLen(m, n) |->
                               ephem[c][ephindex(b) + (IF m = 1 THEN 1 ELSE i)]]
                  IN  [o |-> [o1 EXCEPT !.cache[c] = [set |-> TRUE, val |-> v],
                                        !.ncomp[c] = Min(@ + 1, 2)],
                       kind |-> "array", val |-> v]

\* --------------------------------------------------------- window synthesis
\* MakeWindowBase.make_windows: one window <<first, last>> per maximal run of
\* false, in the timestamps ts of the samples.
RECURSIVE Runs(_, _, _, _, _)
Runs(arr, ts, i, start, acc) ==
    IF i > Len(arr)
    THEN IF start = 0 THEN acc ELSE Append(acc, <<ts[start], ts[Len(arr)]>>)
    ELSE IF arr[i]
         THEN Runs(arr, ts, i + 1, 0,
                   IF start = 0 THEN acc ELSE Append(acc, <<ts[start], ts[i - 1]>>))
         ELSE Runs(arr, ts, i + 1, IF start = 0 THEN i ELSE start, acc)

make_windows(arr, ts) == Runs(arr, ts, 1, 0, <<>>)

\* self.saa_windows with the cache as in o.
SaaWinCached(o) == o.cache.saawin.set
saa_windows(o, arr) ==
    IF SaaWinCached(o) THEN o
    ELSE [o EXCEPT !.cache.saawin =
             [set |-> TRUE,
              val |-> make_windows([i \in 1..Len(insaaconsOf(arr, begin)) |->
                                        ~insaaconsOf(arr, begin)[i]],
                                   timestamp)]]

\* insaa(dttime): scan of the saa_windows list.
InWindows(wins, t) == \E k \in 1..Len(wins) : t >= wins[k][1] /\ t <= wins[k][2]

\* ------------------------------------------------------------------- get()
\* ACROSSAPIBase.validate_get: the request is consistent.
validate_get(b) == b <= end

\* arr[a : a + len(new)] = new, the write through a view of arr.
WriteSlice(arr, a, new) ==
    [g \in 1..Len(arr) |->
        IF g > a /\ g <= a + Len(new) THEN new[g - a] ELSE arr[g]]

\* self.inconstraint = self.insaacons: a slice of the provider's numpy array,
\* sharing its memory.
SaaView(s, b) ==
    [s EXCEPT !.inc = insaaconsOf(s.saa, b), !.aliased = TRUE]

\* self.inconstraint += arr: numpy's in-place logical or, arr broadcast to the
\* shape of self.inconstraint; written through when inconstraint is a view.
AddInPlace(s, arr, b) ==
    LET m == Len(s.inc)
        k == Len(arr)
    IN  IF ~(k = m \/ k = 1) THEN [s EXCEPT !.err = TRUE]
        ELSE LET new == [i \in 1..m |-> s.inc[i] \/ arr[IF k = 1 THEN 1 ELSE i]]
             IN  [s EXCEPT !.inc = new,
                           !.saa = IF s.aliased
                                   THEN WriteSlice(@, ephindex(b), new) ELSE @]

\* if self.<c>_cons is True [and self.in<c>cons is not None]:
\*     self.inconstraint += self.in<c>cons
\* (Pole and Ram read their property twice: the test, then the operand.)
AddCons(s, c, b) ==
    IF s.err \/ ~cons[c] THEN s
    ELSE LET o0 == IF c \in Optional THEN InCons(s.o, c, b).o ELSE s.o
             r == InCons(o0, c, b)
         IN  CASE r.kind = "raised" -> [s EXCEPT !.o = r.o, !.err = TRUE]
               [] r.kind = "none" -> [s EXCEPT !.o = r.o]
               [] OTHER -> AddInPlace([s EXCEPT !.o = r.o], r.val, b)

\* Lines 304-329 of get(), run with self.begin = b already rounded.
Combine(b) ==
    LET s0 == [o |-> [cache |-> cache, ncomp |-> ncomp], saa |-> saa_insaacons,
               inc |-> Zeros(Len(timestampAt(b))), aliased |-> FALSE,
               err |-> FALSE]
        s1 == IF cons.saa THEN SaaView(s0, b) ELSE s0
        s2 == AddCons(s1, "earth", b)
        s3 == AddCons(s2, "moon", b)
        s4 == AddCons(s3, "sun", b)
        s5 == AddCons(s4, "pole", b)
    IN  AddCons(s5, "ram", b)

\* self.entries = self.make_windows(self.inconstraint)
EntriesBeforeCombine(inc, ts) == make_windows(Zeros(Len(inc)), ts)
GetEntries(inc, ts) == make_windows(inc, ts)

NoVisibility == "No visibility for target in given time period."

\* if len(self.entries) == 0: self.status.warning(...)
WarnIf(wins) == Len(wins) = 0

Ret(op, arg, kind, val) == [op |-> op, arg |-> arg, kind |-> kind, val |-> val]

Get ==
    /\ nops < MaxOps
    /\ nops' = nops + 1
    /\ LET b == round_time(begin)
       IN  /\ begin' = b
           /\ IF ~validate_get(b)
              THEN /\ entries' = <<>>
                   /\ ret' = Ret("get", 0, "false", "")
                   /\ fresh' = FALSE
                   /\ UNCHANGED <<saa_insaacons, cache, inconstraint, warnings, ncomp>>
              ELSE LET s == Combine(b)
                       wins == GetEntries(s.inc, timestampAt(b))
                   IN  /\ cache' = s.o.cache
                       /\ ncomp' = s.o.ncomp
                       /\ saa_insaacons' = s.saa
                       /\ inconstraint' = [set |-> TRUE, val |-> s.inc]
                       /\ IF s.err
                          THEN /\ entries' = <<>>
                               /\ warnings' = warnings
                               /\ ret' = Ret("get", 0, "raised", "")
                               /\ fresh' = FALSE
                          ELSE /\ entries' = wins
                               /\ warnings' = IF WarnIf(wins)
                                              THEN warnings \cup {NoVisibility}
                                              ELSE warnings
                               /\ ret' = Ret("get", 0, "none",
                                             IF WarnIf(wins) THEN "warning" ELSE "")
                               /\ fresh' = TRUE
    /\ UNCHANGED <<ephem, saa_poly, cons, end>>

\* ------------------------------------------------------- reading accessors
Obj == [cache |-> cache, ncomp |-> ncomp]

\* A read of inearthcons, insuncons, inmooncons, inramcons or inpolecons.
Access(c) ==
    /\ nops < MaxOps
    /\ nops' = nops + 1
    /\ Len(timestamp) > 0
    /\ LET r == InCons(Obj, c, begin)
       IN  /\ cache' = r.o.cache
           /\ ncomp' = r.o.ncomp
           /\ ret' = Ret(c, 0, r.kind, "")
    /\ UNCHANGED <<ephem, saa_poly, saa_insaacons, cons, begin, end,
                   inconstraint, entries, warnings, fresh>>

\* A read of skycoord.
ReadSkycoord ==
    /\ nops < MaxOps
    /\ nops' = nops + 1
    /\ Len(timestamp) > 0
    /\ LET o == skycoord(Obj, begin)
       IN  /\ cache' = o.cache
           /\ ncomp' = o.ncomp
    /\ ret' = Ret("skycoord", 0, "sky", "")
    /\ UNCHANGED <<ephem, saa_poly, saa_insaacons, cons, begin, end,
                   inconstraint, entries, warnings, fresh>>

\* A read of saa_windows.
ReadSaaWindows ==
    /\ nops < MaxOps
    /\ nops' = nops + 1
    /\ Len(timestamp) > 0
    /\ cache' = saa_windows(Obj, saa_insaacons).cache
    /\ ret' = Ret("saa_windows", 0, "windows", "")
    /\ UNCHANGED <<ephem, saa_poly, saa_insaacons, cons, begin, end,
                   inconstraint, entries, warnings, ncomp, fresh>>

\* insaa(dttime) for the timestamp of grid sample g (0-based).
PyBool(x) == IF x THEN "True" ELSE "False"
InSaa(g) ==
    /\ nops < MaxOps
    /\ nops' = nops + 1
    /\ Len(timestamp) > 0
    /\ LET o == saa_windows(Obj, saa_insaacons)
       IN  /\ cache' = o.cache
           /\ ret' = Ret("insaa", g, "bool",
                         PyBool(InWindows(o.cache.saawin.val, ephem_timestamp[g + 1])))
    /\ UNCHANGED <<ephem, saa_poly, saa_insaacons, cons, begin, end,
                   inconstraint, entries, warnings, ncomp, fresh>>

\* ------------------------------------------------------- constraint(index)
\* The chain insuncons[index], inmooncons[index], inearthcons[index] of
\* constraint(): the first array that is true at index names the constraint.
ConsName(c) == CASE c = "sun" -> "Sun" [] c = "moon" -> "Moon" [] OTHER -> "Earth"

RECURSIVE Chain(_, _, _)
Chain(o, index, names) ==
    IF names = <<>>
    THEN [o |-> o, kind |-> "str",
          val |-> IF insaacons[index + 1] THEN "SAA" ELSE "Unknown"]
    ELSE LET r == InCons(o, Head(names), begin)
         IN  IF r.kind = "raised" \/ index >= Len(r.val)
             THEN [o |-> r.o, kind |-> "raised", val |-> ""]
             ELSE IF r.val[index + 1]
                  THEN [o |-> r.o, kind |-> "str", val |-> ConsName(Head(names))]
                  ELSE Chain(r.o, index, Tail(names))

\* self.timestamp[index] <= self.begin or self.timestamp[index] >= self.end
Outside(t) == t <= begin \/ t >= end

Priority == <<"sun", "moon", "earth">>

constraint(index) ==
    IF Outside(timestamp[index + 1])
    THEN [o |-> Obj, kind |-> "str", val |-> "Window"]
    ELSE IF ~inconstraint.set \/ index >= Len(inconstraint.val)
         THEN [o |-> Obj, kind |-> "raised", val |-> ""]
         ELSE IF inconstraint.val[index + 1]
              THEN Chain(Obj, index, Priority)
              ELSE [o |-> Obj, kind |-> "str", val |-> "None"]

\* A call of constraint(index), index valid in the active slice.
Constraint(index) ==
    /\ nops < MaxOps
    /\ nops' = nops + 1
    /\ index < Len(timestamp)
    /\ LET r == constraint(index)
       IN  /\ cache' = r.o.cache
           /\ ncomp' = r.o.ncomp
           /\ ret' = Ret("constraint", index, r.kind, r.val)
    /\ UNCHANGED <<ephem, saa_poly, saa_insaacons, cons, begin, end,
                   inconstraint, entries, warnings, fresh>>

\* ------------------------------------------------- the caller's assignments
SetBegin(t) ==
    /\ nops < MaxOps
    /\ nops' = nops + 1
    /\ t # begin
    /\ begin' = t
    /\ fresh' = FALSE
    /\ ret' = Ret("set_begin", t, "none", "")
    /\ UNCHANGED <<ephem, saa_poly, saa_insaacons, cons, end, cache,
                   inconstraint, entries, warnings, ncomp>>

SetEnd(t) ==
    /\ nops < MaxOps
    /\ nops' = nops + 1
    /\ t # end
    /\ end' = t
    /\ fresh' = FALSE
    /\ ret' = Ret("set_end", t, "none", "")
    /\ UNCHANGED <<ephem, saa_poly, saa_insaacons, cons, begin, cache,
                   inconstraint, entries, warnings, ncomp>>

ConsFlags == {"saa", "earth", "moon", "sun", "pole", "ram"}

\* self.<c>_cons = not self.<c>_cons
SetCons(c) ==
    /\ nops < MaxOps
    /\ nops' = nops + 1
    /\ cons' = [cons EXCEPT ![c] = ~@]
    /\ fresh' = FALSE
    /\ ret' = Ret("set_cons", 0, "none", c)
    /\ UNCHANGED <<ephem, saa_poly, saa_insaacons, begin, end, cache,
                   inconstraint, entries, warnings, ncomp>>

\* ------------------------------------------------------------ construction
AllCons == [c \in ConsFlags |-> TRUE]

\* The boolean array over the grid that is true exactly at the samples in S.
At(S) == [g \in 1..GridLen |-> g \in S]

EphemOf(sun, moon, earth, pole, ram, velocity, apparent) ==
    [sun |-> sun, moon |-> moon, earth |-> earth, pole |-> pole, ram |-> ram,
     velocity |-> velocity, apparent |-> apparent]

\* Query ranges at construction: begin off the minute, rounded down or up by
\* get(); end at the last sample or at the second.
RoundsDown == <<Tick, LastTime>>
RoundsUp == <<2 * Tick, LastTime>>
Short == <<2 * Tick, StepSize>>

\* Ephemerides, SAA data and query ranges the instance is constructed over:
\*  - any Sun geometry, nothing else blocking, no velocity data;
\*  - Sun, Moon and Earth blocking the same inner sample, the ram direction
\*    the first one, an SAA passage at the last sample, with and without
\*    velocity data and apparent frames;
\*  - the inner sample blocked by the orbital pole alone, Earth and the SAA
\*    at the first sample, the Moon at the last.
Scenarios ==
    {[ephem |-> EphemOf(p, At({}), At({}), At({}), At({}), FALSE, FALSE),
      saa |-> At({}), range |-> RoundsDown] : p \in BoolSeqs(GridLen)}
    \cup
    {[ephem |-> EphemOf(At({2}), At({2}), At({2}), At({}), At({1}), v, a),
      saa |-> At({GridLen}), range |-> r] :
        v \in BOOLEAN, a \in BOOLEAN, r \in {RoundsDown, RoundsUp, Short}}
    \cup
    {[ephem |-> EphemOf(At({}), At({GridLen}), At({1}), At({2}), At({}), v, FALSE),
      saa |-> At({1}), range |-> r] :
        v \in BOOLEAN, r \in {RoundsDown, RoundsUp, Short}}

\* Times a caller assigns to begin and to end.
BeginInputs == {0, Tick, 2 * Tick, StepSize}
EndInputs == {Tick, LastTime - StepSize, LastTime}

Init ==
    /\ \E sc \in Scenarios :
          /\ ephem = sc.ephem
          /\ saa_poly = sc.saa
          /\ begin = sc.range[1]
          /\ end = sc.range[2]
    /\ saa_insaacons = saa_poly
    /\ cons = AllCons
    /\ cache = EmptyCache
    /\ inconstraint = [set |-> FALSE, val |-> <<>>]
    /\ entries = <<>>
    /\ warnings = {}
    /\ ncomp = ZeroComp
    /\ ret = Ret("init", 0, "none", "")
    /\ fresh = FALSE
    /\ nops = 0

Next ==
    \/ Get
    \/ \E c \in CacheNames : Access(c)
    \/ ReadSkycoord
    \/ ReadSaaWindows
    \/ \E g \in 0..(GridLen - 1) : InSaa(g)
    \/ \E i \in 0..(GridLen - 1) : Constraint(i)
    \/ \E t \in BeginInputs : SetBegin(t)
    \/ \E t \in EndInputs : SetEnd(t)
    \/ \E c \in ConsFlags : SetCons(c)

Spec == Init /\ [][Next]_vars

\* ================================================================== claims
\* 0-based grid index g lies in the active slice.
InSlice(g) == g >= ephstart /\ g < Min(ephstop, GridLen)
\* Value of constraint c at timestamp[i], i counted from 1.
ValueAt(c, i) == ephem[c][ephstart + i]
\* Constraint c on the active slice.
OnSlice(c) == [i \in 1..Len(timestamp) |-> ValueAt(c, i)]
\* The timestamp lies outside the closed interval [begin, end].
OutsideClosed(t) == t < begin \/ t > end
\* The logical or of the enabled and defined constraints at timestamp[i].
ExpectedAt(i) ==
    \/ cons.saa /\ saa_poly[ephstart + i]
    \/ \E c \in CacheNames : cons[c] /\ Available(c) /\ ValueAt(c, i)
GetDone == ret.op = "get" /\ ret.kind = "none"
Returned == ret.op = "constraint" /\ ret.kind = "str"
ReturnedAt == timestamp[ret.arg + 1]

\* C1: after a get() that passes validation, a second or later one after the
\* flags were changed included, inconstraint is at each sample the or of
\* exactly the enabled and defined constraints; a disabled constraint
\* contributes nothing.
C1_Claim ==
    GetDone
        => inconstraint.val = [i \in 1..Len(timestamp) |-> ExpectedAt(i)]

\* C2: get() leaves the SAA provider's array as it was at every sample.
C2_Claim == [][ret'.op = "get" => saa_insaacons' = saa_insaacons]_vars

\* C3: after a successful get() the windows are time-ordered and disjoint,
\* every grid sample strictly inside a window is clear in the combined array,
\* and every grid sample of [begin, end] outside all windows is blocked.
InWindow(t, w) == t >= w[1] /\ t <= w[2]
StrictlyIn(t, w) == t > w[1] /\ t < w[2]
C3_Thm ==
    GetDone =>
        /\ \A k \in 1..Len(entries) : entries[k][1] <= entries[k][2]
        /\ \A k \in 1..(Len(entries) - 1) : entries[k][2] < entries[k + 1][1]
        /\ \A g \in 0..(GridLen - 1) : \A k \in 1..Len(entries) :
              StrictlyIn(ephem_timestamp[g + 1], entries[k])
                  => InSlice(g) /\ ~inconstraint.val[g - ephstart + 1]
        /\ \A g \in 0..(GridLen - 1) :
              (/\ ~OutsideClosed(ephem_timestamp[g + 1])
               /\ \A k \in 1..Len(entries) : ~InWindow(ephem_timestamp[g + 1], entries[k]))
                  => InSlice(g) /\ inconstraint.val[g - ephstart + 1]

\* A get() that produced two windows around a blocked sample.
C3_Wit ==
    /\ GetDone
    /\ Len(entries) = 2
    /\ \E i \in 1..Len(inconstraint.val) : inconstraint.val[i]

\* C4: constraint(index) returns "Window" exactly when timestamp[index] lies
\* outside the closed interval [begin, end], and "None" for a sample inside
\* it whose combined value is false.
C4_Claim ==
    Returned =>
        /\ ret.val = "Window" <=> OutsideClosed(ReturnedAt)
        /\ (/\ ~OutsideClosed(ReturnedAt)
            /\ fresh
            /\ ~inconstraint.val[ret.arg + 1]) => ret.val = "None"

\* C5: for a sample inside [begin, end] whose combined value is true,
\* constraint(index) returns the first of Sun, Moon, Earth, SAA whose array
\* is true there, and "Unknown" only when none of the four is.
FirstTrue(i) ==
    IF ValueAt("sun", i) THEN "Sun"
    ELSE IF ValueAt("moon", i) THEN "Moon"
    ELSE IF ValueAt("earth", i) THEN "Earth"
    ELSE IF insaacons[i] THEN "SAA" ELSE "Unknown"
C5_Claim ==
    (/\ ret.op = "constraint"
     /\ fresh
     /\ ~OutsideClosed(ReturnedAt)
     /\ inconstraint.val[ret.arg + 1])
        => ret.kind = "str" /\ ret.val = FirstTrue(ret.arg + 1)

\* C6: a get() that passes validation records the "no visibility" warning if
\* and only if its window list is empty, and completes without an error.
C6_Claim ==
    (ret.op = "get" /\ ret.kind # "false")
        => /\ ret.kind = "none"
           /\ ret.val = "warning" <=> entries = <<>>
           /\ ret.val = "warning" => NoVisibility \in warnings

\* C7: for every grid timestamp t of the active slice, insaa(t) is True when
\* the SAA array is true at the sample of t and False when it is false.
\* Stated for the provider's array as the provider computed it, so that it
\* does not rest on C2.
C7_Claim ==
    (ret.op = "insaa" /\ InSlice(ret.arg) /\ saa_insaacons = saa_poly)
        => ret.val = PyBool(saa_insaacons[ret.arg + 1])

\* C8: the array a constraint accessor returns is aligned with the current
\* active slice: as long as timestamp, element i the value at timestamp[i].
C8_Claim ==
    (ret.op \in CacheNames /\ ret.kind = "array")
        => cache[ret.op].val = OnSlice(ret.op)

\* C9: each constraint array and skycoord is computed at most once on an
\* instance, and once computed the cached value is what every later read
\* returns.
C9_Thm ==
    [][/\ \A c \in CacheNames :
             /\ ncomp'[c] <= 1
             /\ cache[c].set => cache'[c] = cache[c]
       /\ ncomp'.sky <= 1
       /\ cache.sky.set => cache'.sky = cache.sky]_vars

\* A get() that completed after an earlier read of insuncons: it read
\* inpolecons twice and insuncons again, and used skycoord for every array.
C9_Wit ==
    /\ GetDone
    /\ nops >= 2
    /\ cons.pole /\ ephem.velocity /\ cons.sun /\ cons.earth /\ cons.moon
    /\ \A c \in CacheNames : ncomp[c] = 1
    /\ ncomp.sky = 1

\* C10: after a successful get(), a name "Sun", "Moon", "Earth" or "SAA"
\* returned by constraint(index) is that of an enabled constraint.
FlagOf(name) ==
    CASE name = "Sun" -> "sun" [] name = "Moon" -> "moon"
      [] name = "Earth" -> "earth" [] OTHER -> "saa"
C10_Claim ==
    (Returned /\ fresh /\ ret.val \in {"Sun", "Moon", "Earth", "SAA"})
        => cons[FlagOf(ret.val)]

=============================================================================
